---- MODULE Spec2Model ----
(***************************************************************************)
(* Model of src/proxy/proxy.js: the proxy gateway (four express handlers   *)
(* that inject a provider key and forward one upstream GET) and the map    *)
(* client (class SatelliteExplorer).                                       *)
(*                                                                         *)
(* Texts built by template strings are sequences of tokens, so that "the   *)
(* key occurs in this text" is something a formula can ask.                *)
(***************************************************************************)
EXTENDS Integers, Sequences, FiniteSets, TLC

(***************************************************************************)
(* Bounds of the model.                                                    *)
(***************************************************************************)
MaxRequests == 2
MaxBodyLen == 2
MaxEvents == 2
MaxElevation == 900

(***************************************************************************)
(* Gateway: constants of the program.                                      *)
(***************************************************************************)
API_KEYS ==
  [N2YO |-> "9UK5QD-3BZDNQ-KWUH2A-5KFI",
   NASA |-> "69dIc1IkaKKMSRhmHXTC78gY0gZE5YHoThXBYWPo",
   OPENWEATHER |-> "bf997f92aee76cee24f92d4f8f4112e4"]

KeyTokens == {API_KEYS.N2YO, API_KEYS.NASA, API_KEYS.OPENWEATHER}

Endpoints == {"/api/n2yo/above", "/api/n2yo/passes", "/api/nasa/earth-image", "/api/weather"}

\* The value of a query parameter the request does not carry.
UNDEFINED == "<undefined>"

\* req.query.<name>
QueryParam(query, name) == IF name \in DOMAIN query THEN query[name] ELSE UNDEFINED

\* JavaScript truthiness of a query-string value: !v holds of undefined and "".
Truthy(v) == v # UNDEFINED /\ v # ""

\* MissingParams with the satellite-passes guard copied from the other three.
MissingParamsLatLngOnly(endpoint, query) ==
  ~Truthy(QueryParam(query, "lat")) \/ ~Truthy(QueryParam(query, "lng"))

\* The guard of each handler's first "if": true when the request is rejected.
MissingParams(endpoint, query) ==
  IF endpoint = "/api/n2yo/passes"
  THEN \/ ~Truthy(QueryParam(query, "satId"))
       \/ ~Truthy(QueryParam(query, "lat"))
       \/ ~Truthy(QueryParam(query, "lng"))
  ELSE ~Truthy(QueryParam(query, "lat")) \/ ~Truthy(QueryParam(query, "lng"))

ValidationMessage(endpoint) ==
  IF endpoint = "/api/n2yo/passes"
  THEN "Satellite ID, latitude, and longitude are required."
  ELSE "Latitude and longitude are required."

FailureMessage(endpoint) ==
  CASE endpoint = "/api/n2yo/above" -> "Failed to fetch satellite data."
    [] endpoint = "/api/n2yo/passes" -> "Failed to fetch pass data."
    [] endpoint = "/api/nasa/earth-image" -> "Failed to fetch NASA image."
    [] endpoint = "/api/weather" -> "Failed to fetch weather data."

ErrorPrefix(endpoint) ==
  CASE endpoint = "/api/n2yo/above" -> "N2YO API Error: "
    [] endpoint = "/api/n2yo/passes" -> "N2YO API Error: "
    [] endpoint = "/api/nasa/earth-image" -> "NASA API Error: "
    [] endpoint = "/api/weather" -> "OpenWeatherMap API Error: "

\* The upstream URL each handler builds, key last.
UpstreamUrl(endpoint, query) ==
  LET lat == QueryParam(query, "lat")
      lng == QueryParam(query, "lng")
      satId == QueryParam(query, "satId")
  IN CASE endpoint = "/api/n2yo/above" ->
            <<"https://api.n2yo.com/rest/v1/satellite/above/", lat, "/", lng,
              "/0/70/0/?apiKey=", API_KEYS.N2YO>>
       [] endpoint = "/api/n2yo/passes" ->
            <<"https://api.n2yo.com/rest/v1/satellite/radiopasses/", satId, "/", lat, "/", lng,
              "/0/7/10/?apiKey=", API_KEYS.N2YO>>
       [] endpoint = "/api/nasa/earth-image" ->
            <<"https://api.nasa.gov/planetary/earth/imagery?lat=", lat, "&lon=", lng,
              "&dim=", "0.2", "&api_key=", API_KEYS.NASA>>
       [] endpoint = "/api/weather" ->
            <<"https://api.openweathermap.org/data/2.5/weather?lat=", lat, "&lon=", lng,
              "&units=metric&appid=", API_KEYS.OPENWEATHER>>

\* Does a text (a sequence of tokens) hold a provider key?
HoldsKey(text) == \E i \in DOMAIN text : text[i] \in KeyTokens

(***************************************************************************)
(* Gateway: what the upstream services may answer.                         *)
(***************************************************************************)
NoHeader == "<no header>"
JsonContentType == "application/json; charset=utf-8"

\* Content-Type header -> media type (the part before the parameters).
MediaType(contentType) ==
  IF contentType = JsonContentType THEN "application/json" ELSE contentType

ImageContentTypes == {"image/png", "image/jpeg"}

\* JSON texts an upstream may send with a success status: compact, spaced, and
\* one that is no JSON at all.
CompactJson == <<"{\"data\":[]}">>
SpacedJson == <<"{ \"data\": [ ] }">>
NotJson == <<"<html>Bad Gateway</html>">>
PARSE_ERROR == <<"<SyntaxError>">>

\* Body an upstream sends with a non-success status.
UpstreamErrorText == <<"{\"error\":\"upstream detail\"}">>

\* response.json(): the parsed value, named by its JSON.stringify text.
JsonParse(text) ==
  CASE text \in {CompactJson, SpacedJson} -> CompactJson
    [] text = UpstreamErrorText -> UpstreamErrorText
    [] OTHER -> PARSE_ERROR

\* JSON.stringify of a parsed value.
JsonStringify(value) == value

\* JSON.stringify({ error: message })
ErrorJson(message) == <<"{\"error\":\"">> \o message \o <<"\"}">>

\* A non-success answer of an upstream: status line and the error document.
UpstreamFailures ==
  { [ok |-> FALSE, status |-> st[1], statusText |-> st[2],
     contentType |-> JsonContentType, text |-> UpstreamErrorText, bytes |-> <<>>] :
      st \in {<<401, "Unauthorized">>, <<500, "Internal Server Error">>} }

\* The responses fetch(url) may resolve with, per endpoint.  The image service
\* answers success with a byte stream (bytes arrive later, one chunk at a time);
\* the others answer with a JSON text.  The chunks of a stream are named by
\* their place in it: the k-th chunk the upstream emits is chunk k.
UpstreamResponses(endpoint) ==
  UpstreamFailures \cup
  IF endpoint = "/api/nasa/earth-image"
  THEN { [ok |-> TRUE, status |-> 200, statusText |-> "OK",
          contentType |-> ct, text |-> <<>>, bytes |-> <<>>] : ct \in ImageContentTypes }
  ELSE { [ok |-> TRUE, status |-> 200, statusText |-> "OK",
          contentType |-> JsonContentType, text |-> t, bytes |-> <<>>] :
            t \in {CompactJson, SpacedJson, NotJson} }

\* The message of the error node-fetch rejects with when the request cannot be
\* made: it quotes the URL that was requested.
NetworkErrorMessage(url) == <<"request to ">> \o url \o <<" failed, reason: ECONNREFUSED">>

NoResponse == [ok |-> FALSE, status |-> 0, statusText |-> "", contentType |-> NoHeader,
               text |-> <<>>, bytes |-> <<>>]

(***************************************************************************)
(* Gateway: state.                                                         *)
(***************************************************************************)
VARIABLES
  request,        \* request[r]: [endpoint, query] of request r
  pc,             \* pc[r]: where the handler of request r stands
  upstreamCalls,  \* upstreamCalls[r]: the URLs fetch() was called with for r
  upstream,       \* upstream[r]: what the upstream answered to r's call
  res,            \* res[r]: the express response object of r
  serverLog       \* serverLog[r]: texts console.error printed while serving r

gwVars == <<request, pc, upstreamCalls, upstream, res, serverLog>>

VARIABLES
  latInput, lngInput,   \* the value of the two coordinate inputs
  currentLocation,      \* this.currentLocation: [lat, lng]
  mapView,              \* what the map shows: centre and zoom, or fitted bounds
  satMarkersLayer,      \* the layers of this.satMarkersLayer
  locationStatus,       \* the text of #locationStatus
  alerts,               \* the notices showAlert has raised, oldest first
  satList,              \* the content of #satList
  weatherBox,           \* the content of #weatherBox
  earthImg,             \* #earthImg and #imgInfo, and the object URLs alive
  buttons,              \* text and disabled flag of the four busy buttons
  pending,              \* the requests in flight, by the event that made them
  delivered,            \* the answer the latest continuation was resumed with
  events                \* user events so far

clientVars == <<latInput, lngInput, currentLocation, mapView, satMarkersLayer,
                locationStatus, alerts, satList, weatherBox, earthImg, buttons,
                pending, delivered, events>>

vars == <<request, pc, upstreamCalls, upstream, res, serverLog,
          latInput, lngInput, currentLocation, mapView, satMarkersLayer,
          locationStatus, alerts, satList, weatherBox, earthImg, buttons,
          pending, delivered, events>>

Requests == 1..MaxRequests

NoRequest == [endpoint |-> "", query |-> <<>>]

FreshRes == [headersSent |-> FALSE, statusCode |-> 200, contentType |-> NoHeader,
             body |-> <<>>, ended |-> FALSE, sends |-> 0]

\* Query strings a caller may send: each parameter absent, empty or given.
ParamValues == [lat |-> {"", "26.16"}, lng |-> {"32.70"}, satId |-> {"25544"}]

\* The requests a caller may send: <<endpoint, query>>, the query a function
\* from the parameter names it carries to their values.  Only satellite-passes
\* callers send satId (no other handler reads it).
CallerRequests ==
  { eq \in Endpoints \X UNION { [names -> {"", "26.16", "32.70", "25544"}] :
                                names \in SUBSET {"lat", "lng", "satId"} } :
      /\ \A n \in DOMAIN eq[2] : eq[2][n] \in ParamValues[n]
      /\ "satId" \in DOMAIN eq[2] => eq[1] = "/api/n2yo/passes" }

GatewayInit ==
  /\ request = [r \in Requests |-> NoRequest]
  /\ pc = [r \in Requests |-> "idle"]
  /\ upstreamCalls = [r \in Requests |-> <<>>]
  /\ upstream = [r \in Requests |-> NoResponse]
  /\ res = [r \in Requests |-> FreshRes]
  /\ serverLog = [r \in Requests |-> <<>>]

\* res.status(code).json(obj): one complete JSON response.
SendJson(response, code, text) ==
  [response EXCEPT !.headersSent = TRUE, !.statusCode = code,
                   !.contentType = JsonContentType, !.body = text,
                   !.ended = TRUE, !.sends = @ + 1]

\* FailureBody answering with error.message.
FailureBodyLeaky(endpoint, errorMessage) == ErrorJson(errorMessage)

\* The body of the 500 answer each catch block sends.
FailureBody(endpoint, errorMessage) == ErrorJson(<<FailureMessage(endpoint)>>)

\* catch (error) { console.error(..., error); res.status(500).json({error: ...}) }
Catch(r, errorMessage) ==
  /\ serverLog' = [serverLog EXCEPT ![r] = Append(@, errorMessage)]
  /\ res' = [res EXCEPT ![r] = SendJson(@, 500, FailureBody(request[r].endpoint, errorMessage))]
  /\ pc' = [pc EXCEPT ![r] = "done"]

\* FetchCalls with one retry.
FetchCallsTwice(endpoint, query) ==
  <<UpstreamUrl(endpoint, query), UpstreamUrl(endpoint, query)>>

\* The URLs the handler fetches once validation has passed.
FetchCalls(endpoint, query) == <<UpstreamUrl(endpoint, query)>>

\* A request arrives and its handler runs up to `await fetch(url)`.
Arrive(r, endpoint, query) ==
  /\ pc[r] = "idle"
  /\ \A q \in Requests : q < r => pc[q] # "idle"
  /\ request' = [request EXCEPT ![r] = [endpoint |-> endpoint, query |-> query]]
  /\ IF MissingParams(endpoint, query)
     THEN /\ res' = [res EXCEPT ![r] = SendJson(@, 400, ErrorJson(<<ValidationMessage(endpoint)>>))]
          /\ pc' = [pc EXCEPT ![r] = "done"]
          /\ UNCHANGED upstreamCalls
     ELSE /\ upstreamCalls' = [upstreamCalls EXCEPT ![r] = @ \o FetchCalls(endpoint, query)]
          /\ pc' = [pc EXCEPT ![r] = "awaitFetch"]
          /\ UNCHANGED res
  /\ UNCHANGED <<upstream, serverLog>>
  /\ UNCHANGED clientVars

\* fetch() rejects: a network error.
FetchRejects(r) ==
  /\ pc[r] = "awaitFetch"
  /\ Catch(r, NetworkErrorMessage(upstreamCalls[r][Len(upstreamCalls[r])]))
  /\ UNCHANGED <<request, upstreamCalls, upstream>>
  /\ UNCHANGED clientVars

\* PassesOkCheck with the status test left out.
PassesOkCheckAlways(response) == TRUE

\* if (!response.ok) throw ...: does the handler go on with this response?
PassesOkCheck(response) == response.ok

\* fetch() resolves with the upstream's status line and headers; the handler
\* runs up to its next await (response.json()) or starts the pipe.
FetchResolves(r, response) ==
  /\ pc[r] = "awaitFetch"
  /\ upstream' = [upstream EXCEPT ![r] = response]
  /\ IF ~PassesOkCheck(response)
     THEN Catch(r, <<ErrorPrefix(request[r].endpoint), response.statusText>>)
     ELSE /\ pc' = [pc EXCEPT ![r] =
                       IF request[r].endpoint = "/api/nasa/earth-image" THEN "piping"
                       ELSE "awaitJson"]
          /\ UNCHANGED <<res, serverLog>>
  /\ UNCHANGED <<request, upstreamCalls>>
  /\ UNCHANGED clientVars

\* await response.json() settles: the parsed data is sent, or the parse error
\* is caught.
JsonSettles(r) ==
  /\ pc[r] = "awaitJson"
  /\ LET data == JsonParse(upstream[r].text)
     IN IF data = PARSE_ERROR
        THEN Catch(r, <<"invalid json response body">>)
        ELSE /\ res' = [res EXCEPT ![r] = SendJson(@, 200, JsonStringify(data))]
             /\ pc' = [pc EXCEPT ![r] = "done"]
             /\ UNCHANGED serverLog
  /\ UNCHANGED <<request, upstreamCalls, upstream>>
  /\ UNCHANGED clientVars

\* PipeWrite putting the chunk in front of what was written.
PipeWritePrepend(response, chunk) ==
  [response EXCEPT !.headersSent = TRUE, !.body = <<chunk>> \o @]

\* dest.write(chunk) of response.body.pipe(res): the first write sends the
\* header block as it stands.
PipeWrite(response, chunk) ==
  [response EXCEPT !.headersSent = TRUE, !.body = Append(@, chunk)]

\* The upstream body stream emits its next chunk and the pipe writes it to res.
StreamData(r) ==
  /\ pc[r] = "piping"
  /\ Len(upstream[r].bytes) < MaxBodyLen
  /\ LET chunk == ToString(Len(upstream[r].bytes) + 1)
     IN /\ upstream' = [upstream EXCEPT ![r].bytes = Append(@, chunk)]
        /\ res' = [res EXCEPT ![r] = PipeWrite(@, chunk)]
  /\ UNCHANGED <<request, pc, upstreamCalls, serverLog>>
  /\ UNCHANGED clientVars

\* The upstream body stream ends and the pipe ends res.
StreamEnd(r) ==
  /\ pc[r] = "piping"
  /\ res' = [res EXCEPT ![r].headersSent = TRUE, ![r].ended = TRUE, ![r].sends = @ + 1]
  /\ pc' = [pc EXCEPT ![r] = "done"]
  /\ UNCHANGED <<request, upstreamCalls, upstream, serverLog>>
  /\ UNCHANGED clientVars

\* The upstream body stream fails: pipe() forwards no error and does not end
\* res, and the handler's try block was left long ago.
StreamError(r) ==
  /\ pc[r] = "piping"
  /\ pc' = [pc EXCEPT ![r] = "stalled"]
  /\ UNCHANGED <<request, upstreamCalls, upstream, res, serverLog>>
  /\ UNCHANGED clientVars

(***************************************************************************)
(* Map client (class SatelliteExplorer): numbers and strings.              *)
(*                                                                         *)
(* Coordinates are integers counting micro-degrees (1e-6 degree); a device *)
(* position counts tenths of micro-degrees, so that toFixed(6) rounds.     *)
(* A string is a record: what kind of text it is and, for a decimal        *)
(* numeral, its value.                                                     *)
(***************************************************************************)
NaN == -999999999

Micro(degrees) == degrees * 1000000

Decimal(micro) == [kind |-> "decimal", micro |-> micro]
EmptyString == [kind |-> "empty", micro |-> 0]
BlankString == [kind |-> "blank", micro |-> 0]    \* white space only
WordString == [kind |-> "word", micro |-> 0]      \* letters, no numeral

\* JavaScript truthiness of a string: only "" is falsy.
NonEmpty(str) == str.kind # "empty"

\* Number(str), the conversion isNaN and the comparison operators apply:
\* white space and "" convert to 0, other non-numerals to NaN.
ToNumber(str) ==
  CASE str.kind = "decimal" -> str.micro
    [] str.kind \in {"empty", "blank"} -> 0
    [] OTHER -> NaN

\* parseFloat(str): NaN unless the text starts with a numeral.
ParseFloat(str) == IF str.kind = "decimal" THEN str.micro ELSE NaN

\* x.toFixed(6) of a device position x (tenths of micro-degrees), half away
\* from zero.
ToFixed6(tenths) ==
  Decimal(IF tenths >= 0 THEN (tenths + 5) \div 10 ELSE -((5 - tenths) \div 10))

\* `${x}` of a number.
NumberToString(x) == IF x = NaN THEN WordString ELSE Decimal(x)

\* isValidCoordinate(lat, lng), on the input strings.
isValidCoordinate(lat, lng) ==
  /\ ToNumber(lat) # NaN /\ ToNumber(lng) # NaN
  /\ ToNumber(lat) >= Micro(-90) /\ ToNumber(lat) <= Micro(90)
  /\ ToNumber(lng) >= Micro(-180) /\ ToNumber(lng) <= Micro(180)

\* VisibilityLabel with the upper threshold included.
VisibilityLabelInclusive(maxElevation) ==
  IF maxElevation >= 300 THEN "excellent"
  ELSE IF maxElevation > 150 THEN "good"
  ELSE "fair"

\* The class of the pass popup's status line, from pass.maxEl (tenths of a
\* degree).
VisibilityLabel(maxElevation) ==
  IF maxElevation > 300 THEN "excellent"
  ELSE IF maxElevation > 150 THEN "good"
  ELSE "fair"

\* createPassPopup(name, pass, passTime)
createPassPopup(name, pass) ==
  [title |-> name, maxEl |-> pass.maxEl, status |-> VisibilityLabel(pass.maxEl)]

(***************************************************************************)
(* Map client: state.                                                      *)
(***************************************************************************)
DefaultLocation == [lat |-> 26162600, lng |-> 32709400]

\* Labels of the buttons as the page ships them.
ButtonLabels ==
  [useLocationBtn |-> "Activate GPS Location", findAboveBtn |-> "Scan Overhead Satellites",
   getImageBtn |-> "Capture Satellite Image", countryBtn |-> "Find Country"]

NoName == <<>>

Status(msg, lat, lng, name, count) ==
  [msg |-> msg, lat |-> lat, lng |-> lng, name |-> name, count |-> count]

Alert(message, name, type) == [message |-> message, name |-> name, type |-> type]

\* A request in flight and the locals its handler holds across the await.
Op(kind, lat, lng, at, satId, name, originalText) ==
  [kind |-> kind, lat |-> lat, lng |-> lng, at |-> at, satId |-> satId, name |-> name,
   originalText |-> originalText]

NoPlace == [lat |-> 0, lng |-> 0]

\* fetchWeatherData(lat, lng) up to its await.
WeatherOp(lat, lng) == Op("weather", lat, lng, NoPlace, "", NoName, "")

NoPopup == [title |-> NoName, maxEl |-> 0, status |-> ""]

Marker(kind, lat, lng, popup) == [kind |-> kind, lat |-> lat, lng |-> lng, popup |-> popup]

View(lat, lng, zoom, span) == [lat |-> lat, lng |-> lng, zoom |-> zoom, span |-> span]

NothingDelivered == [id |-> -1, kind |-> "none", response |-> [ok |-> FALSE]]

Delivery(id, response) == [id |-> id, kind |-> pending[id].kind, response |-> response]

\* constructor, init(): initializeMap, bindEventListeners, presetDefaultLocation
\* (which starts the first weather request).
PageLoaded ==
  /\ currentLocation = DefaultLocation
  /\ mapView = View(DefaultLocation.lat, DefaultLocation.lng, 5, 0)
  /\ satMarkersLayer = {}
  /\ latInput = Decimal(DefaultLocation.lat)
  /\ lngInput = Decimal(DefaultLocation.lng)
  /\ locationStatus = Status("Default coordinates loaded (Egypt)", 0, 0, NoName, 0)
  /\ alerts = <<>>
  /\ satList = [state |-> "initial", items |-> <<>>]
  /\ weatherBox = [state |-> "initial", visibility |-> [text |-> "", tenthsKm |-> 0]]
  /\ earthImg = [src |-> 0, created |-> {}, revoked |-> {}, info |-> "initial"]
  /\ buttons = [b \in DOMAIN ButtonLabels |-> [text |-> ButtonLabels[b], disabled |-> FALSE]]
  /\ delivered = NothingDelivered

ClientInit ==
  /\ PageLoaded
  /\ pending = (0 :> WeatherOp(NumberToString(DefaultLocation.lat), NumberToString(DefaultLocation.lng)))
  /\ events = 0

\* pending without the request of event id
Settled(id) == [i \in DOMAIN pending \ {id} |-> pending[i]]

\* resetButton(btn, originalText), and the finally blocks that do the same
ResetButton(b, originalText) ==
  [buttons EXCEPT ![b] = [text |-> originalText, disabled |-> FALSE]]

\* Busy leaving the button enabled.
BusyStillEnabled(b, text) == [buttons EXCEPT ![b] = [text |-> text, disabled |-> FALSE]]

\* A handler's btn.textContent = ...; btn.disabled = true
Busy(b, text) == [buttons EXCEPT ![b] = [text |-> text, disabled |-> TRUE]]

\* showAlert(message, type)
showAlert(message, name, type) == Append(alerts, Alert(message, name, type))

(***************************************************************************)
(* Map client: location services.                                          *)
(***************************************************************************)
\* Positions the device may report, in tenths of micro-degrees.
DevicePositions == {[latitude |-> 407127837, longitude |-> -740059413]}

GeolocationErrorMessage(code) ==
  CASE code = 1 -> "Location access denied by user"
    [] code = 2 -> "Location information unavailable"
    [] code = 3 -> "Location request timed out"
    [] OTHER -> "Location access denied"

\* A click on #useLocationBtn: requestUserLocation() up to getCurrentPosition.
requestUserLocation(supported) ==
  /\ events < MaxEvents
  /\ ~buttons.useLocationBtn.disabled
  /\ events' = events + 1
  /\ IF ~supported
     THEN /\ alerts' = showAlert("Geolocation is not supported by this browser", NoName, "error")
          /\ buttons' = ResetButton("useLocationBtn", buttons.useLocationBtn.text)
          /\ UNCHANGED pending
     ELSE /\ buttons' = Busy("useLocationBtn", "Acquiring GPS...")
          /\ pending' = (events + 1 :> Op("gps", EmptyString, EmptyString, NoPlace, "", NoName,
                                          buttons.useLocationBtn.text)) @@ pending
          /\ UNCHANGED alerts
  /\ UNCHANGED <<latInput, lngInput, currentLocation, mapView, satMarkersLayer,
                 locationStatus, satList, weatherBox, earthImg>>
  /\ UNCHANGED delivered
  /\ UNCHANGED gwVars

\* StoredLocation with the two coordinates exchanged.
StoredLocationSwapped(lat, lng) == [lat |-> ParseFloat(lng), lng |-> ParseFloat(lat)]

\* updateInputs(lat, lng): the location it stores.
StoredLocation(lat, lng) == [lat |-> ParseFloat(lat), lng |-> ParseFloat(lng)]

\* addLocationMarker without its clearLayers().
addLocationMarkerNoClear(lat, lng) ==
  satMarkersLayer \cup
    {Marker("custom-location-marker", ToNumber(lat), ToNumber(lng),
            [title |-> <<"Ground Station">>, maxEl |-> 0, status |-> "Active"])}

\* addLocationMarker(lat, lng): the layer afterwards.
addLocationMarker(lat, lng) ==
  {Marker("custom-location-marker", ToNumber(lat), ToNumber(lng),
          [title |-> <<"Ground Station">>, maxEl |-> 0, status |-> "Active"])}

\* The success callback of getCurrentPosition.
GpsSuccess(id, position) ==
  /\ id \in DOMAIN pending /\ pending[id].kind = "gps"
  /\ LET lat == ToFixed6(position.latitude)
         lng == ToFixed6(position.longitude)
     IN /\ latInput' = lat
        /\ lngInput' = lng
        /\ currentLocation' = StoredLocation(lat, lng)
        /\ locationStatus' = Status("GPS Lock Acquired: ", lat.micro, lng.micro, NoName, 0)
        /\ mapView' = View(ToNumber(lat), ToNumber(lng), 10, 0)
        /\ pending' = (id :> WeatherOp(lat, lng)) @@ Settled(id)
        /\ satMarkersLayer' = addLocationMarker(lat, lng)
        /\ buttons' = ResetButton("useLocationBtn", pending[id].originalText)
  /\ UNCHANGED <<alerts, satList, weatherBox, earthImg, events>>
  /\ delivered' = Delivery(id, [ok |-> TRUE, position |-> position, code |-> 0])
  /\ UNCHANGED gwVars

\* The error callback of getCurrentPosition.
GpsError(id, code) ==
  /\ id \in DOMAIN pending /\ pending[id].kind = "gps"
  /\ alerts' = showAlert(GeolocationErrorMessage(code), NoName, "error")
  /\ buttons' = ResetButton("useLocationBtn", pending[id].originalText)
  /\ pending' = Settled(id)
  /\ UNCHANGED <<latInput, lngInput, currentLocation, mapView, satMarkersLayer,
                 locationStatus, satList, weatherBox, earthImg, events>>
  /\ delivered' = Delivery(id, [ok |-> FALSE, position |-> [latitude |-> 0, longitude |-> 0], code |-> code])
  /\ UNCHANGED gwVars

\* What the user may type into a coordinate input.
LatInputs == {Decimal(40712800), Decimal(95000000), EmptyString, BlankString}
LngInputs == {Decimal(-74006000), Decimal(200000000)}

\* updateLocation(): does it accept the two input values?
AcceptsInputs(lat, lng) == NonEmpty(lat) /\ NonEmpty(lng) /\ isValidCoordinate(lat, lng)

\* The change handler of #latInput and #lngInput, after the user has edited
\* one of them: updateLocation().
updateLocation(lat, lng) ==
  /\ events < MaxEvents
  /\ events' = events + 1
  /\ latInput' = lat
  /\ lngInput' = lng
  /\ IF AcceptsInputs(lat, lng)
     THEN /\ currentLocation' = StoredLocation(lat, lng)
          /\ mapView' = View(ToNumber(lat), ToNumber(lng), 8, 0)
          /\ pending' = (events + 1 :> WeatherOp(lat, lng)) @@ pending
     ELSE UNCHANGED <<currentLocation, mapView, pending>>
  /\ UNCHANGED <<satMarkersLayer, locationStatus, alerts, satList, weatherBox, earthImg, buttons>>
  /\ UNCHANGED delivered
  /\ UNCHANGED gwVars

(***************************************************************************)
(* Map client: scan overhead.                                              *)
(***************************************************************************)
Satellite == [satid |-> "25544", satname |-> <<"SPACE STATION">>, satalt |-> 420]

\* What a gateway request may come back with: ok is response.ok of a response
\* whose body parses; a rejected fetch counts as not ok.
AboveResponses ==
  {[ok |-> FALSE, hasAbove |-> FALSE, above |-> <<>>],
   [ok |-> TRUE, hasAbove |-> FALSE, above |-> <<>>],
   [ok |-> TRUE, hasAbove |-> TRUE, above |-> <<>>],
   [ok |-> TRUE, hasAbove |-> TRUE, above |-> <<Satellite>>]}

\* renderSatelliteList without its empty-state branch.
renderSatelliteListNoEmptyState(satellites) == [state |-> "list", items |-> satellites]

\* renderSatelliteList(satellites)
renderSatelliteList(satellites) ==
  IF Len(satellites) = 0
  THEN [state |-> "no-satellites", items |-> <<>>]
  ELSE [state |-> "list", items |-> satellites]

\* A click on #findAboveBtn: findSatellitesAbove() up to its await.
findSatellitesAbove ==
  /\ events < MaxEvents
  /\ ~buttons.findAboveBtn.disabled
  /\ events' = events + 1
  /\ IF ~NonEmpty(latInput) \/ ~NonEmpty(lngInput)
     THEN /\ alerts' = showAlert("Please set your location coordinates first", NoName, "warning")
          /\ UNCHANGED <<buttons, pending>>
     ELSE /\ buttons' = Busy("findAboveBtn", "Scanning Orbital Space...")
          /\ pending' = (events + 1 :> Op("above", latInput, lngInput, NoPlace, "", NoName,
                                          buttons.findAboveBtn.text)) @@ pending
          /\ UNCHANGED alerts
  /\ UNCHANGED <<latInput, lngInput, currentLocation, mapView, satMarkersLayer,
                 locationStatus, satList, weatherBox, earthImg>>
  /\ UNCHANGED delivered
  /\ UNCHANGED gwVars

\* findSatellitesAbove() from its await to the end of finally.
AboveSettles(id, response) ==
  /\ id \in DOMAIN pending /\ pending[id].kind = "above"
  /\ IF response.ok
     THEN /\ satList' = renderSatelliteList(IF response.hasAbove THEN response.above ELSE <<>>)
          /\ locationStatus' =
               IF response.hasAbove /\ Len(response.above) > 0
               THEN Status("Found satellites overhead", 0, 0, NoName, Len(response.above))
               ELSE locationStatus
          /\ UNCHANGED alerts
     ELSE /\ alerts' = showAlert("Unable to retrieve satellite data. Check your connection.",
                                 NoName, "error")
          /\ UNCHANGED <<satList, locationStatus>>
  /\ buttons' = ResetButton("findAboveBtn", pending[id].originalText)
  /\ pending' = Settled(id)
  /\ UNCHANGED <<latInput, lngInput, currentLocation, mapView, satMarkersLayer,
                 weatherBox, earthImg, events>>
  /\ delivered' = Delivery(id, response)
  /\ UNCHANGED gwVars

(***************************************************************************)
(* Map client: track pass.                                                 *)
(***************************************************************************)
\* What the user may have typed into #satIdInput.
SatIdInputs == {"", "25544"}

\* trackSatelliteById(satId, name) up to its await: the coordinates it reads.
TrackOp(satId, name) ==
  Op("passes", NumberToString(currentLocation.lat), NumberToString(currentLocation.lng),
     currentLocation, satId, name, "")

\* A click on #trackIdBtn, or Enter in #satIdInput: trackSpecificSatellite().
trackSpecificSatellite(satId) ==
  /\ events < MaxEvents
  /\ events' = events + 1
  /\ IF satId = ""
     THEN /\ alerts' = showAlert("Please enter a NORAD ID (e.g., 25544 for ISS)", NoName, "warning")
          /\ UNCHANGED pending
     ELSE /\ pending' = (events + 1 :> TrackOp(satId, <<"Satellite ", satId>>)) @@ pending
          /\ UNCHANGED alerts
  /\ UNCHANGED <<latInput, lngInput, currentLocation, mapView, satMarkersLayer,
                 locationStatus, satList, weatherBox, earthImg, buttons>>
  /\ UNCHANGED delivered
  /\ UNCHANGED gwVars

\* A click on an entry of the satellite list.
ClickSatelliteItem(k) ==
  /\ events < MaxEvents
  /\ k \in DOMAIN satList.items
  /\ events' = events + 1
  /\ pending' = (events + 1 :> TrackOp(satList.items[k].satid, satList.items[k].satname)) @@ pending
  /\ UNCHANGED <<latInput, lngInput, currentLocation, mapView, satMarkersLayer,
                 locationStatus, alerts, satList, weatherBox, earthImg, buttons>>
  /\ UNCHANGED delivered
  /\ UNCHANGED gwVars

\* Elevations are tenths of a degree.  first is "none" when the list is empty,
\* "null" when its first entry is null, else "pass".
PassResponses ==
  {[ok |-> FALSE, hasPasses |-> FALSE, first |-> "none", maxEl |-> 0],
   [ok |-> TRUE, hasPasses |-> FALSE, first |-> "none", maxEl |-> 0],
   [ok |-> TRUE, hasPasses |-> TRUE, first |-> "none", maxEl |-> 0],
   [ok |-> TRUE, hasPasses |-> TRUE, first |-> "null", maxEl |-> 0],
   [ok |-> TRUE, hasPasses |-> TRUE, first |-> "pass", maxEl |-> 120],
   [ok |-> TRUE, hasPasses |-> TRUE, first |-> "pass", maxEl |-> 455]}

\* visualizeSatellitePass(pass, lat, lng): the track and its two end markers.
\* sin(0) = sin(pi) = 0 and cos(0) = cos(2 pi) = 1: both ends are 0.8 degree
\* east of the ground station.
visualizeSatellitePass(lat, lng) ==
  {Marker("track", lat, lng, NoPopup),
   Marker("start-marker", lat, lng + 800000, NoPopup),
   Marker("end-marker", lat, lng + 800000, NoPopup)}

\* The layer after a pass has been rendered for the station at (lat, lng).
PassLayer(lat, lng, popup) ==
  {Marker("ground-station-marker", lat, lng, popup)} \cup visualizeSatellitePass(lat, lng)

\* trackSatelliteById() from its await to its end.
PassesSettles(id, response) ==
  /\ id \in DOMAIN pending /\ pending[id].kind = "passes"
  /\ LET op == pending[id]
         lat == op.at.lat
         lng == op.at.lng
     IN CASE ~response.ok \/ (response.hasPasses /\ response.first = "null") ->
               /\ alerts' = showAlert("Unable to predict satellite passes", NoName, "error")
               /\ UNCHANGED <<satMarkersLayer, mapView, locationStatus>>
          [] response.ok /\ (~response.hasPasses \/ response.first = "none") ->
               /\ alerts' = showAlert("No upcoming passes found for ", op.name, "info")
               /\ UNCHANGED <<satMarkersLayer, mapView, locationStatus>>
          [] response.ok /\ response.hasPasses /\ response.first = "pass" ->
               IF lat = NaN \/ lng = NaN
               THEN \* L.marker throws once the layer has been cleared
                    /\ satMarkersLayer' = {}
                    /\ alerts' = showAlert("Unable to predict satellite passes", NoName, "error")
                    /\ UNCHANGED <<mapView, locationStatus>>
               ELSE /\ satMarkersLayer' = PassLayer(lat, lng, createPassPopup(op.name, response))
                    /\ mapView' = View(lat, lng, 8, 0)
                    /\ locationStatus' = Status("Tracking - Next pass: ", 0, 0, op.name, 0)
                    /\ UNCHANGED alerts
  /\ pending' = Settled(id)
  /\ UNCHANGED <<latInput, lngInput, currentLocation, satList, weatherBox, earthImg,
                 buttons, events>>
  /\ delivered' = Delivery(id, response)
  /\ UNCHANGED gwVars

(***************************************************************************)
(* Map client: earth image.                                                *)
(***************************************************************************)
\* A click on #getImageBtn: fetchEarthImage() up to its await.
fetchEarthImage ==
  /\ events < MaxEvents
  /\ ~buttons.getImageBtn.disabled
  /\ events' = events + 1
  /\ IF ~NonEmpty(latInput) \/ ~NonEmpty(lngInput)
     THEN /\ alerts' = showAlert("Please set coordinates first", NoName, "warning")
          /\ UNCHANGED <<buttons, pending, earthImg>>
     ELSE /\ buttons' = Busy("getImageBtn", "Acquiring Satellite Imagery...")
          /\ earthImg' = [earthImg EXCEPT !.info = "loading"]
          /\ pending' = (events + 1 :> Op("image", latInput, lngInput, NoPlace, "", NoName,
                                          buttons.getImageBtn.text)) @@ pending
          /\ UNCHANGED alerts
  /\ UNCHANGED <<latInput, lngInput, currentLocation, mapView, satMarkersLayer,
                 locationStatus, satList, weatherBox>>
  /\ UNCHANGED delivered
  /\ UNCHANGED gwVars

\* ShowBlob without the revokeObjectURL of the displayed reference.
ShowBlobNoRevoke(img, id) ==
  [src |-> id, created |-> img.created \cup {id}, revoked |-> img.revoked, info |-> "success"]

\* The image element after a blob has arrived: the object URL made for event
\* id is named id; src 0 is the empty src attribute.
ShowBlob(img, id) ==
  [src |-> id,
   created |-> img.created \cup {id},
   revoked |-> IF img.src # 0 THEN img.revoked \cup {img.src} ELSE img.revoked,
   info |-> "success"]

\* fetchEarthImage() from its await to the end of finally.
ImageSettles(id, ok) ==
  /\ id \in DOMAIN pending /\ pending[id].kind = "image"
  /\ earthImg' = IF ok THEN ShowBlob(earthImg, id) ELSE [earthImg EXCEPT !.info = "error"]
  /\ buttons' = ResetButton("getImageBtn", pending[id].originalText)
  /\ pending' = Settled(id)
  /\ UNCHANGED <<latInput, lngInput, currentLocation, mapView, satMarkersLayer,
                 locationStatus, alerts, satList, weatherBox, events>>
  /\ delivered' = Delivery(id, [ok |-> ok])
  /\ UNCHANGED gwVars

(***************************************************************************)
(* Map client: weather.                                                    *)
(***************************************************************************)
\* Weather answers: visibility in metres, -1 when the field is absent.
WeatherResponses ==
  {[ok |-> FALSE, visibility |-> -1],
   [ok |-> TRUE, visibility |-> -1],
   [ok |-> TRUE, visibility |-> 0],
   [ok |-> TRUE, visibility |-> 10000]}

\* data.visibility ? (data.visibility / 1000).toFixed(1) : 'N/A', in tenths
\* of a kilometre.
VisibilityText(visibility) ==
  IF visibility = -1 \/ visibility = 0
  THEN [text |-> "N/A", tenthsKm |-> 0]
  ELSE [text |-> "km", tenthsKm |-> (visibility + 50) \div 100]

\* displayWeatherData(data)
displayWeatherData(data) == [state |-> "weather-data", visibility |-> VisibilityText(data.visibility)]

\* fetchWeatherData() from its await to its end.
WeatherSettles(id, response) ==
  /\ id \in DOMAIN pending /\ pending[id].kind = "weather"
  /\ weatherBox' = IF response.ok THEN displayWeatherData(response)
                   ELSE [state |-> "weather-error", visibility |-> [text |-> "", tenthsKm |-> 0]]
  /\ pending' = Settled(id)
  /\ UNCHANGED <<latInput, lngInput, currentLocation, mapView, satMarkersLayer,
                 locationStatus, alerts, satList, earthImg, buttons, events>>
  /\ delivered' = Delivery(id, response)
  /\ UNCHANGED gwVars

(***************************************************************************)
(* Map client: country search.                                             *)
(***************************************************************************)
\* What the user may have typed into #countryInput, trimmed.
CountryInputs == {"", "Egypt"}

NoLatLng == [lat |-> NaN, lng |-> NaN]

\* Answers of the country lookup service.  found is FALSE for an empty list;
\* capital and centroid are NoLatLng when the record lacks them; named is
\* FALSE when the record has no name object.
CountryResponses ==
  {[ok |-> FALSE, found |-> FALSE, capital |-> NoLatLng, centroid |-> NoLatLng, named |-> FALSE],
   [ok |-> TRUE, found |-> FALSE, capital |-> NoLatLng, centroid |-> NoLatLng, named |-> FALSE],
   [ok |-> TRUE, found |-> TRUE, capital |-> NoLatLng, centroid |-> NoLatLng, named |-> TRUE],
   [ok |-> TRUE, found |-> TRUE, capital |-> [lat |-> 30050000, lng |-> 31250000],
    centroid |-> [lat |-> 27000000, lng |-> 30000000], named |-> TRUE],
   [ok |-> TRUE, found |-> TRUE, capital |-> NoLatLng,
    centroid |-> [lat |-> 27000000, lng |-> 30000000], named |-> TRUE],
   [ok |-> TRUE, found |-> TRUE, capital |-> [lat |-> 30050000, lng |-> 31250000],
    centroid |-> [lat |-> 27000000, lng |-> 30000000], named |-> FALSE]}

\* DisplayLatLng falling back to [0, 0] when the record has no coordinates.
DisplayLatLngDefaulted(country) ==
  IF country.capital # NoLatLng THEN country.capital
  ELSE IF country.centroid # NoLatLng THEN country.centroid
  ELSE [lat |-> 0, lng |-> 0]

\* country.capitalInfo?.latlng || country.latlng
DisplayLatLng(country) ==
  IF country.capital # NoLatLng THEN country.capital ELSE country.centroid

\* searchCountry() up to its await; the click needs an enabled button, the
\* Enter key in #countryInput does not.
searchCountry(countryName, byEnter) ==
  /\ events < MaxEvents
  /\ byEnter \/ ~buttons.countryBtn.disabled
  /\ events' = events + 1
  /\ IF countryName = ""
     THEN /\ alerts' = showAlert("Please enter a country name", NoName, "warning")
          /\ UNCHANGED <<buttons, pending>>
     ELSE /\ buttons' = Busy("countryBtn", "Locating...")
          /\ pending' = (events + 1 :> Op("country", EmptyString, EmptyString, NoPlace, "",
                                          <<countryName>>, buttons.countryBtn.text)) @@ pending
          /\ UNCHANGED alerts
  /\ UNCHANGED <<latInput, lngInput, currentLocation, mapView, satMarkersLayer,
                 locationStatus, satList, weatherBox, earthImg>>
  /\ UNCHANGED delivered
  /\ UNCHANGED gwVars

\* country.name.common of the record the service returns for the name
CommonName(countryName) == countryName

\* searchCountry() from its await to the end of finally.
CountrySettles(id, response) ==
  /\ id \in DOMAIN pending /\ pending[id].kind = "country"
  /\ LET latlng == DisplayLatLng(response)
         notFound == showAlert("Country not found. Please check spelling.", NoName, "error")
     IN CASE ~response.ok \/ ~response.found \/ latlng = NoLatLng ->
               /\ alerts' = notFound
               /\ UNCHANGED <<mapView, satMarkersLayer, locationStatus>>
          [] response.ok /\ response.found /\ latlng # NoLatLng /\ ~response.named ->
               \* createCountryPopup throws on country.name.common, the marker is in
               /\ mapView' = View(latlng.lat, latlng.lng, 0, 3000000)
               /\ satMarkersLayer' = {Marker("country-marker", latlng.lat, latlng.lng, NoPopup)}
               /\ alerts' = notFound
               /\ UNCHANGED locationStatus
          [] response.ok /\ response.found /\ latlng # NoLatLng /\ response.named ->
               /\ mapView' = View(latlng.lat, latlng.lng, 0, 3000000)
               /\ satMarkersLayer' =
                    {Marker("country-marker", latlng.lat, latlng.lng,
                            [title |-> CommonName(pending[id].name), maxEl |-> 0, status |-> ""])}
               /\ locationStatus' = Status("Located: ", 0, 0, CommonName(pending[id].name), 0)
               /\ UNCHANGED alerts
  /\ buttons' = ResetButton("countryBtn", pending[id].originalText)
  /\ pending' = Settled(id)
  /\ UNCHANGED <<latInput, lngInput, currentLocation, satList, weatherBox, earthImg, events>>
  /\ delivered' = Delivery(id, response)
  /\ UNCHANGED gwVars

(***************************************************************************)
(* Map client: the next-state relation.                                    *)
(***************************************************************************)
Ids == 0..MaxEvents

ClientNext ==
  \/ \E supported \in BOOLEAN : requestUserLocation(supported)
  \/ \E id \in Ids, position \in DevicePositions : GpsSuccess(id, position)
  \/ \E id \in Ids, code \in {1, 2, 3} : GpsError(id, code)
  \/ \E lat \in LatInputs : updateLocation(lat, lngInput)
  \/ \E lng \in LngInputs : updateLocation(latInput, lng)
  \/ findSatellitesAbove
  \/ \E id \in Ids, response \in AboveResponses : AboveSettles(id, response)
  \/ \E satId \in SatIdInputs : trackSpecificSatellite(satId)
  \/ \E k \in 1..1 : ClickSatelliteItem(k)
  \/ \E id \in Ids, response \in PassResponses : PassesSettles(id, response)
  \/ fetchEarthImage
  \/ \E id \in Ids, ok \in BOOLEAN : ImageSettles(id, ok)
  \/ \E id \in Ids, response \in WeatherResponses : WeatherSettles(id, response)
  \/ \E countryName \in CountryInputs, byEnter \in BOOLEAN : searchCountry(countryName, byEnter)
  \/ \E id \in Ids, response \in CountryResponses : CountrySettles(id, response)

\* The client alone: no gateway request ever arrives.
ClientSpecInit == ClientInit /\ GatewayInit

ClientSpec == ClientSpecInit /\ [][ClientNext]_vars

(***************************************************************************)
(* createPassPopup on every elevation: the page has loaded, the user has   *)
(* asked for the passes of satellite 25544, and the answer holds one pass  *)
(* of any maximum elevation from 0 to 90 degrees (in tenths).              *)
(***************************************************************************)
PopupInit ==
  /\ PageLoaded
  /\ pending = (0 :> WeatherOp(NumberToString(DefaultLocation.lat), NumberToString(DefaultLocation.lng)))
                 @@ (1 :> TrackOp("25544", <<"Satellite ", "25544">>))
  /\ events = 1

PopupNext ==
  \E maxEl \in 0..MaxElevation :
    PassesSettles(1, [ok |-> TRUE, hasPasses |-> TRUE, first |-> "pass", maxEl |-> maxEl])

PopupSpecInit == PopupInit /\ GatewayInit

PopupSpec == PopupSpecInit /\ [][PopupNext]_vars

GatewayNext ==
  \/ \E r \in Requests, eq \in CallerRequests : Arrive(r, eq[1], eq[2])
  \/ \E r \in Requests : FetchRejects(r)
  \/ \E r \in Requests : \E response \in UpstreamResponses(request[r].endpoint) :
        FetchResolves(r, response)
  \/ \E r \in Requests : JsonSettles(r)
  \/ \E r \in Requests : StreamData(r)
  \/ \E r \in Requests : StreamEnd(r)
  \/ \E r \in Requests : StreamError(r)

\* The gateway alone: the client stays as loaded.
GatewaySpecInit == GatewayInit /\ ClientInit

GatewaySpec == GatewaySpecInit /\ [][GatewayNext]_vars

(***************************************************************************)
(* Claims about the gateway (GatewaySpec).                                 *)
(***************************************************************************)
Arrived(r) == pc[r] # "idle"

Lacks(r, name) == QueryParam(request[r].query, name) \in {UNDEFINED, ""}

LacksRequired(r) ==
  \/ Lacks(r, "lat")
  \/ Lacks(r, "lng")
  \/ request[r].endpoint = "/api/n2yo/passes" /\ Lacks(r, "satId")

ProviderKey(endpoint) ==
  CASE endpoint \in {"/api/n2yo/above", "/api/n2yo/passes"} -> "9UK5QD-3BZDNQ-KWUH2A-5KFI"
    [] endpoint = "/api/nasa/earth-image" -> "69dIc1IkaKKMSRhmHXTC78gY0gZE5YHoThXBYWPo"
    [] endpoint = "/api/weather" -> "bf997f92aee76cee24f92d4f8f4112e4"

\* C1: a request that lacks a required query parameter (latitude or
\* longitude, and the satellite id on satellite-passes) is answered 400 with
\* a JSON body {error: message}, and no upstream call is ever issued for it.
C1_MissingParamIs400 ==
  \A r \in Requests :
    (Arrived(r) /\ LacksRequired(r)) =>
      /\ res[r].statusCode = 400
      /\ res[r].ended
      /\ res[r].sends = 1
      /\ res[r].contentType = JsonContentType
      /\ \E message \in {"Latitude and longitude are required.",
                          "Satellite ID, latitude, and longitude are required."} :
           res[r].body = <<"{\"error\":\"", message, "\"}">>
      /\ upstreamCalls[r] = <<>>
      /\ upstream[r] = NoResponse

\* A satellite-passes request with both coordinates and no satellite id has
\* been answered.
C1_Witness ==
  \E r \in Requests :
    /\ request[r].endpoint = "/api/n2yo/passes"
    /\ ~Lacks(r, "lat") /\ ~Lacks(r, "lng") /\ Lacks(r, "satId")
    /\ pc[r] = "done" /\ res[r].statusCode = 400

\* C2: a request that carries all required parameters gets exactly one
\* upstream call, which carries the provider's key: never none, never a
\* second one, whatever the upstream outcome.
C2_ExactlyOneUpstreamCall ==
  \A r \in Requests :
    (Arrived(r) /\ ~LacksRequired(r)) =>
      /\ Len(upstreamCalls[r]) = 1
      /\ \E i \in DOMAIN upstreamCalls[r][1] :
           upstreamCalls[r][1][i] = ProviderKey(request[r].endpoint)

\* A request has failed on a network error and another on a body that does
\* not parse, each after its one call.
C2_Witness ==
  /\ \E r \in Requests :
       /\ pc[r] = "done" /\ res[r].statusCode = 500 /\ upstream[r] = NoResponse
       /\ Len(upstreamCalls[r]) = 1
  /\ \E r \in Requests :
       /\ pc[r] = "done" /\ res[r].statusCode = 500 /\ upstream[r].text = NotJson
       /\ Len(upstreamCalls[r]) = 1

\* C3: the provider key never appears in what is sent back to the caller,
\* whatever the upstream outcome.
C3_KeyNotInResponse ==
  \A r \in Requests :
    \A i \in DOMAIN res[r].body :
      res[r].body[i] \notin {"9UK5QD-3BZDNQ-KWUH2A-5KFI",
                             "69dIc1IkaKKMSRhmHXTC78gY0gZE5YHoThXBYWPo",
                             "bf997f92aee76cee24f92d4f8f4112e4"}

\* A network error whose message quotes the keyed URL has been logged and the
\* caller has its 500.
C3_Witness ==
  \E r \in Requests :
    /\ pc[r] = "done" /\ res[r].statusCode = 500 /\ res[r].ended
    /\ \E k \in DOMAIN serverLog[r] : HoldsKey(serverLog[r][k])

\* C4: a non-success upstream status gives the caller a 500 whose JSON body
\* has an error field and nothing of the upstream body, and no response is
\* started while the upstream status is still awaited.
C4_UpstreamFailureIs500 ==
  \A r \in Requests :
    /\ (Arrived(r) /\ upstream[r].status \in {401, 500}) =>
         /\ res[r].statusCode = 500
         /\ res[r].ended /\ res[r].sends = 1
         /\ res[r].contentType = JsonContentType
         /\ Len(res[r].body) = 3
         /\ res[r].body[1] = "{\"error\":\"" /\ res[r].body[3] = "\"}"
         /\ \A i \in DOMAIN res[r].body, j \in DOMAIN upstream[r].text :
              res[r].body[i] # upstream[r].text[j]
    /\ pc[r] = "awaitFetch" => ~res[r].headersSent /\ res[r].sends = 0

\* The image service and a JSON service have each answered 401.
C4_Witness ==
  /\ \E r \in Requests :
       /\ request[r].endpoint = "/api/nasa/earth-image"
       /\ upstream[r].status = 401 /\ res[r].statusCode = 500
  /\ \E r \in Requests :
       /\ request[r].endpoint = "/api/weather"
       /\ upstream[r].status = 401 /\ res[r].statusCode = 500

\* C5: on a successful upstream response the earth-image endpoint sends the
\* chunks the upstream returned, in the same order, nothing added, dropped
\* or wrapped in JSON.
C5_ImageBodyVerbatim ==
  \A r \in Requests :
    (request[r].endpoint = "/api/nasa/earth-image" /\ upstream[r].ok) =>
      /\ res[r].body = upstream[r].bytes
      /\ res[r].contentType # JsonContentType
      /\ pc[r] = "done" => res[r].ended /\ res[r].statusCode = 200 /\ res[r].sends = 1

\* An image of at least two chunks has been relayed to its end.
C5_Witness ==
  \E r \in Requests :
    /\ request[r].endpoint = "/api/nasa/earth-image"
    /\ upstream[r].ok /\ pc[r] = "done"
    /\ Len(upstream[r].bytes) >= 2 /\ res[r].ended

\* C6: on a successful upstream response the earth-image answer carries the
\* upstream's content type; the three other endpoints answer with content
\* type application/json.
C6_ContentTypes ==
  \A r \in Requests :
    res[r].headersSent =>
      IF request[r].endpoint = "/api/nasa/earth-image"
      THEN upstream[r].ok => res[r].contentType = upstream[r].contentType
      ELSE MediaType(res[r].contentType) = "application/json"

(***************************************************************************)
(* Claims about the map client.                                            *)
(***************************************************************************)
\* This step resumes the handler that awaited an answer of the given kind.
Resumed(kind) ==
  /\ delivered'.id # delivered.id \/ delivered'.kind # delivered.kind
  /\ delivered'.kind = kind

\* This step starts a request of the given kind.
Started(kind) ==
  \E id \in DOMAIN pending' : id \notin DOMAIN pending /\ pending'[id].kind = kind

\* C7: the visibility label of a pass popup is decided by the pass's maximum
\* elevation alone: excellent above 30 degrees, good above 15 and up to 30,
\* fair otherwise; 31, 20, 10 give excellent, good, fair and the boundaries
\* 30 and 15 give good and fair.  (PopupSpec; elevations in tenths.)
C7_VisibilityLabel ==
  (delivered.kind = "passes" /\ delivered.response.first = "pass") =>
    \E m \in satMarkersLayer :
      /\ m.kind = "ground-station-marker"
      /\ \A other \in satMarkersLayer : other.kind = m.kind => other = m
      /\ LET el == delivered.response.maxEl
             label == m.popup.status
         IN /\ el > 300 => label = "excellent"
            /\ (el > 150 /\ el <= 300) => label = "good"
            /\ el <= 150 => label = "fair"
            /\ el = 310 => label = "excellent"
            /\ el = 200 => label = "good"
            /\ el = 100 => label = "fair"
            /\ el = 300 => label = "good"
            /\ el = 150 => label = "fair"

\* A pass of exactly 30 degrees has been rendered, labelled good.
C7_Witness ==
  /\ delivered.kind = "passes" /\ delivered.response.first = "pass"
  /\ delivered.response.maxEl = 300
  /\ \E m \in satMarkersLayer : m.kind = "ground-station-marker" /\ m.popup.status = "good"

\* C8: when a scan succeeds with an `above` list that is empty or absent the
\* satellite list shows the empty-state panel and no notice is raised; a scan
\* raises its error notice only when the request fails.
C8_EmptyScanIsNoError ==
  [][Resumed("above") =>
       LET answer == delivered'.response
       IN /\ (answer.ok /\ (~answer.hasAbove \/ Len(answer.above) = 0)) =>
               /\ satList'.state = "no-satellites"
               /\ satList'.items = <<>>
               /\ alerts' = alerts
          /\ alerts' # alerts =>
               /\ ~answer.ok
               /\ Len(alerts') = Len(alerts) + 1
               /\ alerts'[Len(alerts')].type = "error"
               /\ satList' = satList
          /\ ~answer.ok => alerts' # alerts]_vars

\* A scan came back ok with no `above` field and the empty-state panel is up
\* with no notice raised.
C8_Witness ==
  /\ delivered.kind = "above"
  /\ delivered.response.ok /\ ~delivered.response.hasAbove
  /\ satList.state = "no-satellites"
  /\ alerts = <<>>

\* C9: when a country search finds no record (non-success answer or empty
\* list) or the record has no coordinates, a not-found notice is raised and
\* the marker layer is left as it was: neither starting the search nor its
\* failure clears or replaces a marker.
C9_NotFoundKeepsMarkers ==
  [][/\ Started("country") => satMarkersLayer' = satMarkersLayer
     /\ Resumed("country") =>
          LET answer == delivered'.response
          IN (\/ ~answer.ok
              \/ ~answer.found
              \/ (answer.capital.lat = NaN /\ answer.centroid.lat = NaN)) =>
               /\ satMarkersLayer' = satMarkersLayer
               /\ Len(alerts') = Len(alerts) + 1
               /\ alerts'[Len(alerts')].message = "Country not found. Please check spelling."
               /\ alerts'[Len(alerts')].type = "error"]_vars

\* A search for a record without coordinates has failed while the layer
\* holds an earlier render, and the notice is up.
C9_Witness ==
  /\ delivered.kind = "country"
  /\ delivered.response.ok /\ delivered.response.found
  /\ delivered.response.capital.lat = NaN /\ delivered.response.centroid.lat = NaN
  /\ satMarkersLayer # {}
  /\ Len(alerts) > 0
  /\ alerts[Len(alerts)].message = "Country not found. Please check spelling."

\* The answer of a country search that renders: a named record with
\* coordinates.
CountryRendered(answer) ==
  /\ answer.ok /\ answer.found /\ answer.named
  /\ answer.capital.lat # NaN \/ answer.centroid.lat # NaN

\* This step is the change handler of a coordinate input.
ManualInput == events' = events + 1 /\ (latInput' # latInput \/ lngInput' # lngInput)

InRange(str) == str.kind = "decimal" /\ str.micro >= -90000000 /\ str.micro <= 90000000

InRangeLng(str) == str.kind = "decimal" /\ str.micro >= -180000000 /\ str.micro <= 180000000

\* C10 as stated: the current location is updated by a GPS fix, by a valid
\* manual input and by a successful country lookup, after which it equals
\* the country's display coordinates.
C10_ThreeMutators ==
  [][/\ (Resumed("gps") /\ delivered'.response.ok) =>
          /\ 10 * currentLocation'.lat - delivered'.response.position.latitude \in -5..5
          /\ 10 * currentLocation'.lng - delivered'.response.position.longitude \in -5..5
     /\ (ManualInput /\ InRange(latInput') /\ InRangeLng(lngInput')) =>
          currentLocation' = [lat |-> latInput'.micro, lng |-> lngInput'.micro]
     /\ (Resumed("country") /\ CountryRendered(delivered'.response)) =>
          currentLocation' = IF delivered'.response.capital.lat # NaN
                             THEN delivered'.response.capital
                             ELSE delivered'.response.centroid]_vars

\* C10 amended: the current location is updated by a GPS fix (to the fix
\* rounded to six decimals) and by a manual input that updateLocation
\* accepts (to the typed coordinates when they are numerals in range), and
\* by nothing else; a country search leaves it unchanged, so a following
\* track-pass reads the location from before the search.
C10_TwoMutators ==
  [][/\ (Resumed("gps") /\ delivered'.response.ok) =>
          /\ 10 * currentLocation'.lat - delivered'.response.position.latitude \in -5..5
          /\ 10 * currentLocation'.lng - delivered'.response.position.longitude \in -5..5
     /\ (ManualInput /\ InRange(latInput') /\ InRangeLng(lngInput')) =>
          currentLocation' = [lat |-> latInput'.micro, lng |-> lngInput'.micro]
     /\ Resumed("country") => currentLocation' = currentLocation
     /\ currentLocation' # currentLocation =>
          \/ Resumed("gps") /\ delivered'.response.ok
          \/ ManualInput /\ AcceptsInputs(latInput', lngInput')
     /\ \A id \in DOMAIN pending' :
          (id \notin DOMAIN pending /\ pending'[id].kind = "passes") =>
            /\ pending'[id].at = currentLocation
            /\ ToNumber(pending'[id].lat) = currentLocation.lat
            /\ ToNumber(pending'[id].lng) = currentLocation.lng]_vars

\* A country has been rendered, and a track-pass started after it holds the
\* location from before the search, which is not where the country marker is.
C10_Witness ==
  /\ delivered.kind = "country" /\ CountryRendered(delivered.response)
  /\ \E m \in satMarkersLayer :
       m.kind = "country-marker" /\ (m.lat # currentLocation.lat \/ m.lng # currentLocation.lng)
  /\ \E id \in DOMAIN pending : pending[id].kind = "passes" /\ pending[id].at = currentLocation

\* C11: the coordinates that scan-overhead, earth-image and track-pass put
\* into their gateway request are the current location at the moment the
\* action is triggered, after any GPS fix, manual input or country search.
C11_RequestsUseCurrentLocation ==
  [][\A id \in DOMAIN pending' :
       (id \notin DOMAIN pending /\ pending'[id].kind \in {"above", "image", "passes"}) =>
         /\ ToNumber(pending'[id].lat) = currentLocation.lat
         /\ ToNumber(pending'[id].lng) = currentLocation.lng]_vars

\* The text is a numeral within the given range of degrees.
NumeralWithin(str, degrees) ==
  str.kind = "decimal" /\ str.micro >= Micro(-degrees) /\ str.micro <= Micro(degrees)

\* C12: in every reachable state the current location has a latitude in
\* [-90, 90] and a longitude in [-180, 180]; a manual input that is outside
\* these ranges or not numeric leaves the current location, the viewport and
\* the weather panel unchanged and starts no weather request.
C12_LocationAlwaysInRange ==
  [][/\ currentLocation'.lat >= Micro(-90) /\ currentLocation'.lat <= Micro(90)
     /\ currentLocation'.lng >= Micro(-180) /\ currentLocation'.lng <= Micro(180)
     /\ (ManualInput /\ ~(NumeralWithin(latInput', 90) /\ NumeralWithin(lngInput', 180))) =>
          /\ currentLocation' = currentLocation
          /\ mapView' = mapView
          /\ weatherBox' = weatherBox
          /\ ~Started("weather")]_vars

\* The answer of a track-pass request that renders for a station at `at`.
PassRendered(answer, at) ==
  /\ answer.ok /\ answer.hasPasses /\ answer.first = "pass"
  /\ at.lat # NaN /\ at.lng # NaN

\* The markers of the given kind in a layer.
OfKind(layer, kind) == {m \in layer : m.kind = kind}

\* C13: when requests that render into the marker layer (track-pass, country
\* search, locate) overlap and succeed, the layer after each render holds
\* exactly the markers of the request that has just resolved and none of an
\* earlier one: renders are never interleaved or mixed, in either
\* completion order.
C13_LastRenderOwnsLayer ==
  [][/\ (Resumed("gps") /\ delivered'.response.ok) =>
          /\ Cardinality(satMarkersLayer') = 1
          /\ \A m \in satMarkersLayer' :
               /\ m.kind = "custom-location-marker"
               /\ 10 * m.lat - delivered'.response.position.latitude \in -5..5
               /\ 10 * m.lng - delivered'.response.position.longitude \in -5..5
     /\ (Resumed("country") /\ CountryRendered(delivered'.response)) =>
          /\ Cardinality(satMarkersLayer') = 1
          /\ \A m \in satMarkersLayer' :
               /\ m.kind = "country-marker"
               /\ [lat |-> m.lat, lng |-> m.lng] \in
                    {delivered'.response.capital, delivered'.response.centroid}
     /\ (Resumed("passes") /\ PassRendered(delivered'.response, pending[delivered'.id].at)) =>
          /\ Cardinality(satMarkersLayer') = 4
          /\ \A kind \in {"ground-station-marker", "track", "start-marker", "end-marker"} :
               Cardinality(OfKind(satMarkersLayer', kind)) = 1
          /\ \A m \in OfKind(satMarkersLayer', "ground-station-marker") :
               /\ [lat |-> m.lat, lng |-> m.lng] = pending[delivered'.id].at
               /\ m.popup.maxEl = delivered'.response.maxEl]_vars

\* A country search and then a locate request were outstanding together; the
\* GPS fix arrived first (the inputs show it) and the country record last:
\* the layer holds the country marker alone.
C13_Witness ==
  /\ delivered.kind = "country" /\ delivered.id = 1
  /\ CountryRendered(delivered.response)
  /\ latInput = Decimal(40712784)
  /\ Cardinality(satMarkersLayer) = 1
  /\ \A m \in satMarkersLayer : m.kind = "country-marker"

\* The requests of the given kind that are outstanding.
Outstanding(kind) == {id \in DOMAIN pending : pending[id].kind = kind}

\* The user can still act and the coordinate inputs are filled in.
CanTrigger == events < MaxEvents /\ NonEmpty(latInput) /\ NonEmpty(lngInput)

\* A further request of the kind can be started from this state.
ScanCanStart == ENABLED (findSatellitesAbove /\ Started("above"))
ImageCanStart == ENABLED (fetchEarthImage /\ Started("image"))
TrackCanStart ==
  ENABLED ((\E satId \in SatIdInputs : trackSpecificSatellite(satId)) /\ Started("passes"))
CountryCanStart ==
  ENABLED ((\E countryName \in CountryInputs, byEnter \in BOOLEAN :
              searchCountry(countryName, byEnter)) /\ Started("country"))

\* C14 as stated: none of scan-overhead, track-pass, earth-image and country
\* search is guarded against concurrent triggering of itself: while a request
\* of the action is outstanding a second invocation of it can start.
C14_NoActionGuarded ==
  CanTrigger =>
    /\ Outstanding("above") # {} => ScanCanStart
    /\ Outstanding("passes") # {} => TrackCanStart
    /\ Outstanding("image") # {} => ImageCanStart
    /\ Outstanding("country") # {} => CountryCanStart

\* C14 amended: track-pass and country search (through the Enter key) can be
\* started again while their request is outstanding; scan-overhead and
\* earth-image cannot: their button, the only trigger, is disabled while the
\* request is outstanding, so at most one request of each is ever in flight.
C14_OnlyTrackAndCountryUnguarded ==
  /\ CanTrigger =>
       /\ Outstanding("passes") # {} => TrackCanStart
       /\ Outstanding("country") # {} => CountryCanStart
  /\ Cardinality(Outstanding("above")) <= 1
  /\ Cardinality(Outstanding("image")) <= 1
  /\ Outstanding("above") # {} => buttons.findAboveBtn.disabled /\ ~ScanCanStart
  /\ Outstanding("image") # {} => buttons.getImageBtn.disabled /\ ~ImageCanStart

\* Two country searches are outstanding at once, the second one started with
\* the Enter key while the button was disabled.
C14_Witness ==
  /\ Cardinality(Outstanding("country")) = 2
  /\ buttons.countryBtn.disabled

\* The answer of a track-pass request came through but holds no pass, or a
\* null first pass.
PassesMalformed(answer) ==
  answer.ok /\ (~answer.hasPasses \/ answer.first \in {"none", "null"})

\* The country record came through but has no coordinates, or no name.
CountryMalformed(answer) ==
  /\ answer.ok /\ answer.found
  /\ (answer.capital.lat = NaN /\ answer.centroid.lat = NaN) \/ ~answer.named

\* C15: when a track-pass or country-search response lacks a field the
\* client expects (no passes, null first pass, no coordinates, record without
\* a name) the client shows a notice and leaves the marker layer, the
\* viewport, the current location and the location status text as they
\* were: no partially applied render.
C15_FailureLeavesNoPartialRender ==
  [][(\/ Resumed("passes") /\ PassesMalformed(delivered'.response)
      \/ Resumed("country") /\ CountryMalformed(delivered'.response)) =>
       /\ Len(alerts') = Len(alerts) + 1
       /\ satMarkersLayer' = satMarkersLayer
       /\ mapView' = mapView
       /\ currentLocation' = currentLocation
       /\ locationStatus' = locationStatus]_vars

\* C16: after any sequence of earth-image fetches at most one object
\* reference created by the client is unreleased, and it is the one the
\* image element displays: a successful fetch releases the displayed
\* reference before installing its own, a failed fetch neither releases nor
\* replaces it.
C16_OneLiveObjectUrl ==
  /\ Cardinality(earthImg.created \ earthImg.revoked) <= 1
  /\ earthImg.created \ earthImg.revoked \subseteq {earthImg.src}
  /\ earthImg.revoked \subseteq earthImg.created
  /\ earthImg.src # 0 => earthImg.src \in earthImg.created \ earthImg.revoked
  /\ (delivered.kind = "image" /\ delivered.response.ok) =>
       /\ earthImg.src = delivered.id
       /\ earthImg.revoked = earthImg.created \ {delivered.id}
  /\ (delivered.kind = "image" /\ ~delivered.response.ok) =>
       earthImg.src # delivered.id /\ delivered.id \notin earthImg.created

\* Two fetches have succeeded one after the other: the first reference has
\* been released and the second is on display.
C16_Witness ==
  /\ Cardinality(earthImg.created) = 2
  /\ Cardinality(earthImg.revoked) = 1
  /\ earthImg.src \in earthImg.created \ earthImg.revoked

\* C17: the weather panel shows the visibility of the weather response, in
\* kilometres, whenever the response has a visibility field, whatever its
\* value (0 included), and the placeholder only when the field is absent.
C17_VisibilityShown ==
  (delivered.kind = "weather" /\ delivered.response.ok) =>
    /\ weatherBox.state = "weather-data"
    /\ IF delivered.response.visibility = -1
       THEN weatherBox.visibility.text = "N/A"
       ELSE /\ weatherBox.visibility.text = "km"
            /\ 100 * weatherBox.visibility.tenthsKm - delivered.response.visibility \in -50..50

\* Some step of the handler of request r, or of the streams it has set up,
\* can still happen.
HandlerCanStep(r) ==
  ENABLED (\/ FetchRejects(r)
           \/ \E response \in UpstreamResponses(request[r].endpoint) : FetchResolves(r, response)
           \/ JsonSettles(r)
           \/ StreamData(r)
           \/ StreamEnd(r)
           \/ StreamError(r))

\* C18: every request gets exactly one response (400, 500 or the relayed
\* success) whatever the upstream does, a body stream that fails during the
\* relay included: no second response is sent, and once nothing more can
\* happen for a request its one response is complete.
C18_ExactlyOneResponse ==
  \A r \in Requests :
    /\ res[r].sends <= 1
    /\ (Arrived(r) /\ ~HandlerCanStep(r)) =>
         /\ res[r].sends = 1
         /\ res[r].ended
         /\ res[r].statusCode \in {200, 400, 500}

\* The button is enabled and shows the label the page gave it.
Restored(b) == buttons[b] = [text |-> ButtonLabels[b], disabled |-> FALSE]

\* C19: once every started country search has completed, searches started
\* with the Enter key during an earlier search included, the country button
\* is enabled and shows the label it had before the first of them started;
\* likewise the scan and earth-image buttons once their requests have
\* completed, on success and on failure.
C19_ButtonsRestored ==
  /\ Outstanding("country") = {} => Restored("countryBtn")
  /\ Outstanding("above") = {} => Restored("findAboveBtn")
  /\ Outstanding("image") = {} => Restored("getImageBtn")

====
